---------------------------- MODULE Spec2Model ----------------------------
(***************************************************************************)
(* A model of the tsh session client of tpot (package tsh, with the        *)
(* command-line caller in main.go).  Go strings are sequences of           *)
(* one-character strings, so that the scanners (Contains, Replace,         *)
(* TrimSpace, Split, HasPrefix) are computed as the code computes them.    *)
(* Every operation of TSH is synchronous and keeps no state of its own     *)
(* between calls: an action is one whole call, and the state records the   *)
(* call's inputs, the external processes it started (in order) and what    *)
(* it returned.                                                            *)
(***************************************************************************)
EXTENDS Integers, Sequences, FiniteSets, TLC

VARIABLES
    proxy,       \* TSH.proxy: the *config.Proxy the client was built with
    minVersion,  \* TSH.minVersion
    pc,          \* "idle": no call in progress; "done": a call has returned
    op,          \* the operation that was called
    in,          \* what the outside world gave the call (outputs of the tool, the clock, arguments)
    runs,        \* the external processes the call started, in order
    ret          \* what the call returned

vars == <<proxy, minVersion, pc, op, in, runs, ret>>

---------------------------------------------------------------------------
(* Bounds of the model. *)

\* the longest status text, in lines
MaxStatusLines == 4
\* the longest node listing, in lines
MaxListingLines == 3

---------------------------------------------------------------------------
(* Package strings, as used by the client. *)

\* x, evaluated once, given to F (an operator's argument is otherwise
\* evaluated again wherever the operator uses it)
Let(x, F(_)) == CHOOSE r \in {F(v) : v \in {x}} : TRUE

\* the least and the greatest element of a non-empty set of integers
Least(S) == CHOOSE i \in S : \A j \in S : i <= j
Greatest(S) == CHOOSE i \in S : \A j \in S : i >= j

\* strings.HasPrefix
HasPrefix(s, p) == Let(s, LAMBDA v : Len(v) >= Len(p) /\ SubSeq(v, 1, Len(p)) = p)

\* strings.TrimPrefix
TrimPrefix(s, p) ==
    Let(s, LAMBDA v : IF HasPrefix(v, p) THEN SubSeq(v, Len(p) + 1, Len(v)) ELSE v)

\* strings.Index, 1-based; 0 when sub does not occur in s
Index(s, sub) ==
    Let(s, LAMBDA v :
        Let({i \in 1..(Len(v) - Len(sub) + 1) : SubSeq(v, i, i + Len(sub) - 1) = sub},
            LAMBDA at : IF at = {} THEN 0 ELSE Least(at)))

\* strings.Contains
Contains(s, sub) == Index(s, sub) # 0

\* strings.Replace(s, old, new, -1), for a non-empty old
RECURSIVE Replace(_, _, _)
Replace(s, old, new) ==
    Let(s, LAMBDA v : Let(Index(v, old), LAMBDA i :
        IF i = 0 THEN v
        ELSE SubSeq(v, 1, i - 1) \o new \o Replace(SubSeq(v, i + Len(old), Len(v)), old, new)))

\* strings.Split(s, sep), for a non-empty sep
RECURSIVE Split(_, _)
Split(s, sep) ==
    Let(s, LAMBDA v : Let(Index(v, sep), LAMBDA i :
        IF i = 0 THEN <<v>>
        ELSE <<SubSeq(v, 1, i - 1)>> \o Split(SubSeq(v, i + Len(sep), Len(v)), sep)))

\* unicode.IsSpace, on the characters of the model
IsSpace(c) == c \in {" ", "\t", "\n", "\r", "\f"}

\* strings.TrimSpace
TrimSpace(s) ==
    Let(s, LAMBDA v : Let({i \in 1..Len(v) : ~IsSpace(v[i])}, LAMBDA keep :
        IF keep = {} THEN <<>> ELSE SubSeq(v, Least(keep), Greatest(keep))))

\* bufio.Scanner with the default ScanLines: the lines of a text, each without
\* its newline and without one trailing carriage return; no line for the
\* empty rest after the last newline
dropCR(l) ==
    Let(l, LAMBDA v : IF Len(v) > 0 /\ v[Len(v)] = "\r" THEN SubSeq(v, 1, Len(v) - 1) ELSE v)

RECURSIVE ScanLines(_)
ScanLines(text) ==
    Let(text, LAMBDA v : Let(Index(v, <<"\n">>), LAMBDA i :
        IF v = <<>> THEN <<>>
        ELSE IF i = 0 THEN <<dropCR(v)>>
        ELSE <<dropCR(SubSeq(v, 1, i - 1))>> \o ScanLines(SubSeq(v, i + 1, Len(v)))))

\* the lines of a text, each followed by a newline (how the tool prints them)
RECURSIVE JoinLines(_)
JoinLines(lines) ==
    Let(lines, LAMBDA v :
        IF v = <<>> THEN <<>> ELSE Head(v) \o <<"\n">> \o JoinLines(Tail(v)))

IsDigit(c) == c \in {"0", "1", "2", "3", "4", "5", "6", "7", "8", "9"}

DigitVal(c) ==
    CASE c = "0" -> 0 [] c = "1" -> 1 [] c = "2" -> 2 [] c = "3" -> 3 [] c = "4" -> 4
      [] c = "5" -> 5 [] c = "6" -> 6 [] c = "7" -> 7 [] c = "8" -> 8 [] c = "9" -> 9

AllDigits(s) == \A i \in 1..Len(s) : IsDigit(s[i])

\* strconv.Atoi on a string of digits
RECURSIVE Atoi(_)
Atoi(s) == IF s = <<>> THEN 0 ELSE 10 * Atoi(SubSeq(s, 1, Len(s) - 1)) + DigitVal(s[Len(s)])

---------------------------------------------------------------------------
(* Package time: an instant is the day since 0001-01-01 UTC and the second *)
(* of that day; the zero time.Time is day 0, second 0.                     *)

ZeroTime == [day |-> 0, sec |-> 0]

IsLeap(y) == (y % 4 = 0) /\ ((y % 100 # 0) \/ (y % 400 = 0))

DaysIn(m, y) ==
    IF m = 2 THEN (IF IsLeap(y) THEN 29 ELSE 28)
    ELSE IF m \in {4, 6, 9, 11} THEN 30 ELSE 31

RECURSIVE DaysBeforeMonth(_, _)
DaysBeforeMonth(m, y) == IF m = 1 THEN 0 ELSE DaysBeforeMonth(m - 1, y) + DaysIn(m - 1, y)

\* time.Date(y, m, d, hh, mm, ss, 0, zone of offset seconds east of UTC)
Date(y, m, d, hh, mm, ss, offset) ==
    LET y1   == y - 1
        days == 365 * y1 + (y1 \div 4) - (y1 \div 100) + (y1 \div 400)
                + DaysBeforeMonth(m, y) + (d - 1)
        secs == hh * 3600 + mm * 60 + ss - offset
    IN  [day |-> days + (secs \div 86400), sec |-> secs % 86400]

\* Time.Before
Before(t, u) == t.day < u.day \/ (t.day = u.day /\ t.sec < u.sec)

\* time.Parse("2006-01-02 15:04:05 -0700 WIB", value): the instant, or the
\* zero time with ok = FALSE.  "WIB" is no element of a layout, so it is
\* literal text; the hour (15) takes one or two digits, every other number
\* its full width.
ParseValidUntil(value) ==
    Let(value, LAMBDA s :
    Let(IF Len(s) >= 13 /\ IsDigit(s[12]) /\ IsDigit(s[13]) THEN 2 ELSE 1, LAMBDA w :
        LET at(i, j) == SubSeq(s, i, j)
            shape ==
                /\ Len(s) = 27 + w
                /\ AllDigits(at(1, 4))   /\ s[5] = "-"
                /\ AllDigits(at(6, 7))   /\ s[8] = "-"
                /\ AllDigits(at(9, 10))  /\ s[11] = " "
                /\ AllDigits(at(12, 11 + w))      /\ s[12 + w] = ":"
                /\ AllDigits(at(13 + w, 14 + w))  /\ s[15 + w] = ":"
                /\ AllDigits(at(16 + w, 17 + w))  /\ s[18 + w] = " "
                /\ s[19 + w] \in {"+", "-"}
                /\ AllDigits(at(20 + w, 23 + w))
                /\ at(24 + w, 27 + w) = <<" ","W","I","B">>
            y   == Atoi(at(1, 4))
            mo  == Atoi(at(6, 7))
            d   == Atoi(at(9, 10))
            hh  == Atoi(at(12, 11 + w))
            mi  == Atoi(at(13 + w, 14 + w))
            ss  == Atoi(at(16 + w, 17 + w))
            off == (Atoi(at(20 + w, 21 + w)) * 60 + Atoi(at(22 + w, 23 + w))) * 60
            range ==
                /\ mo \in 1..12
                /\ d >= 1 /\ d <= DaysIn(mo, y)
                /\ hh < 24 /\ mi < 60 /\ ss < 60
        IN  IF shape /\ range
            THEN [ok |-> TRUE,
                  t  |-> Date(y, mo, d, hh, mi, ss, IF s[19 + w] = "-" THEN 0 - off ELSE off)]
            ELSE [ok |-> FALSE, t |-> ZeroTime]))

---------------------------------------------------------------------------
(* Package net/url: url.Parse(rawURL), as far as its Host and its error go. *)
(* Not modelled: control bytes, percent-escapes, user information and      *)
(* bracketed IPv6 hosts (no address of the model has them).                *)

IsLetter(c) ==
    c \in {"a", "b", "c", "d", "e", "f", "g", "h", "i", "j", "k", "l", "m",
           "n", "o", "p", "q", "r", "s", "t", "u", "v", "w", "x", "y", "z",
           "A", "B", "C", "D", "E", "F", "G", "H", "I", "J", "K", "L", "M",
           "N", "O", "P", "Q", "R", "S", "T", "U", "V", "W", "X", "Y", "Z"}

\* url.getScheme, from the i-th character on: [err, scheme, rest]
RECURSIVE getScheme(_, _)
getScheme(rawURL, i) ==
    IF i > Len(rawURL) THEN [err |-> FALSE, scheme |-> <<>>, rest |-> rawURL]
    ELSE LET c == rawURL[i]
         IN  IF IsLetter(c) THEN getScheme(rawURL, i + 1)
             ELSE IF IsDigit(c) \/ c \in {"+", "-", "."}
                  THEN IF i = 1 THEN [err |-> FALSE, scheme |-> <<>>, rest |-> rawURL]
                       ELSE getScheme(rawURL, i + 1)
             ELSE IF c = ":"
                  THEN IF i = 1 THEN [err |-> TRUE, scheme |-> <<>>, rest |-> <<>>]
                       ELSE [err |-> FALSE, scheme |-> SubSeq(rawURL, 1, i - 1),
                             rest |-> SubSeq(rawURL, i + 1, Len(rawURL))]
             ELSE [err |-> FALSE, scheme |-> <<>>, rest |-> rawURL]

\* strings.Cut(s, sep), the part before sep (all of s when sep is not in it)
CutBefore(s, sep) ==
    Let(s, LAMBDA v : Let(Index(v, sep), LAMBDA i : IF i = 0 THEN v ELSE SubSeq(v, 1, i - 1)))

\* strings.LastIndex(s, c) for a one-character c; 0 when c is not in s
LastIndex(s, c) ==
    Let({i \in 1..Len(s) : s[i] = c}, LAMBDA at : IF at = {} THEN 0 ELSE Greatest(at))

\* url.parseHost: a port, when there is one, is made of digits, and no
\* character of the host needs escaping
validHost(host) ==
    Let(LastIndex(host, ":"), LAMBDA i :
        /\ i # 0 => AllDigits(SubSeq(host, i + 1, Len(host)))
        /\ \A k \in 1..Len(host) :
              \/ IsLetter(host[k]) \/ IsDigit(host[k])
              \/ host[k] \in {"-", "_", ".", "~", "!", "$", "&", "'", "(", ")", "*",
                              "+", ",", ";", "=", ":", "<", ">", "\""})

\* url.Parse(rawURL): [err, Host]
urlParse(rawURL) ==
    Let(getScheme(CutBefore(rawURL, <<"#">>), 1), LAMBDA sch :
    Let(CutBefore(sch.rest, <<"?">>), LAMBDA rest :
    Let(CutBefore(SubSeq(rest, 3, Len(rest)), <<"/">>), LAMBDA authority :
        LET fail == [err |-> TRUE, Host |-> <<>>]
        IN  IF sch.err THEN fail
            ELSE IF ~HasPrefix(rest, <<"/">>) /\ sch.scheme # <<>>
                 THEN [err |-> FALSE, Host |-> <<>>]      \* an opaque URL
            ELSE IF ~HasPrefix(rest, <<"/">>) /\ Contains(CutBefore(rest, <<"/">>), <<":">>)
                 THEN fail                                \* first path segment cannot contain colon
            ELSE IF HasPrefix(rest, <<"/", "/">>)
                 THEN IF validHost(authority) THEN [err |-> FALSE, Host |-> authority] ELSE fail
            ELSE [err |-> FALSE, Host |-> <<>>])))

---------------------------------------------------------------------------
(* The client (package tsh). *)

\* const tshBinary
tshBinary == <<"t","s","h">>

\* errors: nil, the error of a process that could not run or exited
\* non-zero, and the errors the client makes itself
Nil == [kind |-> "nil", msg |-> <<>>]
ExitError == [kind |-> "exec.ExitError", msg |-> <<>>]
UrlError == [kind |-> "url.Error", msg |-> <<>>]
ErrorsNew(msg) == [kind |-> "errors.New", msg |-> msg]
ErrUnsupportedVersion == [kind |-> "ErrUnsupportedVersion", msg |-> <<"u","n","s","u","p","p","o","r","t","e","d"," ","v","e","r","s","i","o","n">>]
ErrNoIPAddress == [kind |-> "fmt.Errorf", msg |-> <<"c","o","u","l","d","n","'","t"," ","f","i","n","d"," ","I","P"," ","a","d","d","r","e","s","s">>]
ErrStdOutEmpty == [kind |-> "fmt.Errorf", msg |-> <<"s","t","d"," ","o","u","t"," ","i","s"," ","e","m","p","t","y">>]

\* exec.Command(name, arg...)
Command(name, arg) == [name |-> name, args |-> arg]

\* TSH.tshBinary
TSH_tshBinary(p) == IF p.TSHPath # <<>> THEN p.TSHPath ELSE tshBinary

\* TSH.cleanAddress: [err, host]
cleanAddress(p) ==
    Let(urlParse(p.Address), LAMBDA u :
        IF u.err THEN [err |-> UrlError, host |-> <<>>] ELSE [err |-> Nil, host |-> u.Host])

\* TSH.getProxyFlags: [err, args]
getProxyFlags(p) ==
    Let(cleanAddress(p), LAMBDA a :
        IF a.err # Nil THEN [err |-> a.err, args |-> <<>>]
        ELSE [err |-> Nil, args |-> << <<"-","-","p","r","o","x","y","=">> \o a.host >>])

\* authFlags that never looks at the connector
authFlagsUserOnly(p) == << <<"-","-","u","s","e","r","=">> \o p.UserName >>

\* TSH.authFlags
authFlags(p) ==
    IF p.AuthConnector # <<>> THEN << <<"-","-","a","u","t","h","=">> \o p.AuthConnector >>
    ELSE << <<"-","-","u","s","e","r","=">> \o p.UserName >>

\* type Profile; currentProfile is a *Profile, nil before the first one
NilProfile == [isNil |-> TRUE, URL |-> <<>>, ValidUntil |-> ZeroTime]
NewProfile(url) == [isNil |-> FALSE, URL |-> url, ValidUntil |-> ZeroTime]

\* profileMap[key] = profile
MapPut(m, key, profile) ==
    [k \in (DOMAIN m) \cup {key} |-> IF k = key THEN profile ELSE m[k]]

\* the commit of the profile in progress (isLogin, lines 243-245 and 260-262)
Commit(st) ==
    IF ~st.currentProfile.isNil /\ st.currentProfile.URL # <<>>
    THEN MapPut(st.profileMap, st.currentProfile.URL, st.currentProfile)
    ELSE st.profileMap

\* the time string of a "Valid until:" line (isLogin, lines 252-254)
timeStringOf(line) ==
    TrimSpace(Split(TrimPrefix(TrimSpace(line), <<"V","a","l","i","d"," ","u","n","t","i","l",":">>), <<"[">>)[1])

\* the profile URL of a "Profile URL:" line (isLogin, lines 246-249)
profileURLOf(line) ==
    TrimSpace(Replace(Replace(line, <<">">>, <<>>), <<"P","r","o","f","i","l","e"," ","U","R","L",":">>, <<>>))

\* one turn of the scanner's loop in isLogin; a store through the nil
\* currentProfile is a nil pointer dereference, which panics
scanLine(st, line) ==
    IF Contains(line, <<"P","r","o","f","i","l","e"," ","U","R","L",":">>)
    THEN [st EXCEPT !.profileMap = Commit(st),
                    !.currentProfile = NewProfile(profileURLOf(line))]
    ELSE IF Contains(line, <<"V","a","l","i","d"," ","u","n","t","i","l",":">>)
    THEN IF st.currentProfile.isNil
         THEN [st EXCEPT !.panicked = TRUE]
         ELSE [st EXCEPT !.currentProfile.ValidUntil = ParseValidUntil(timeStringOf(line)).t]
    ELSE st

\* the scanner's loop, from the i-th line on
RECURSIVE scanLoop(_, _, _)
scanLoop(st, lines, i) ==
    IF i > Len(lines) \/ st.panicked THEN st
    ELSE Let(scanLine(st, lines[i]), LAMBDA next : scanLoop(next, lines, i + 1))

\* scanProfiles without the commit after the loop (lines 260-262)
scanProfilesNoLastCommit(stdOut) ==
    Let(ScanLines(stdOut), LAMBDA lines :
    Let(scanLoop([panicked |-> FALSE, currentProfile |-> NilProfile, profileMap |-> <<>>],
                 lines, 1), LAMBDA st :
        [panicked |-> st.panicked, profileMap |-> st.profileMap]))

\* the scan of the status text in isLogin: [panicked, profileMap]
scanProfiles(stdOut) ==
    Let(ScanLines(stdOut), LAMBDA lines :
    Let(scanLoop([panicked |-> FALSE, currentProfile |-> NilProfile, profileMap |-> <<>>],
                 lines, 1), LAMBDA st :
        [panicked |-> st.panicked, profileMap |-> IF st.panicked THEN <<>> ELSE Commit(st)]))

\* the last comparison of isLogin: time.Now().Before(target.ValidUntil)
stillValid(now, target) == Before(now, target.ValidUntil)

\* TSH.isLogin, given what `tsh status` did (res: [err, stdOut, stdErr]) and
\* the time.Now() of its last line: [panicked, value, profileMap]
isLogin(p, res, now) ==
    LET no == [panicked |-> FALSE, value |-> FALSE, profileMap |-> <<>>]
    IN  IF res.err # Nil THEN no
        ELSE IF res.stdErr # <<>> THEN no
        ELSE Let(scanProfiles(res.stdOut), LAMBDA sc :
             IF sc.panicked THEN [panicked |-> TRUE, value |-> FALSE, profileMap |-> <<>>]
             ELSE IF p.Address \notin DOMAIN sc.profileMap
                  THEN [no EXCEPT !.profileMap = sc.profileMap]
             ELSE [panicked |-> FALSE, value |-> stillValid(now, sc.profileMap[p.Address]),
                   profileMap |-> sc.profileMap])

\* the command isLogin runs
isLoginCommand(p) == Command(TSH_tshBinary(p), << <<"s","t","a","t","u","s">> >>)

\* TSH.Login, given what isLogin saw and how `tsh login` ended:
\* [panicked, err, runs]
Login(p, statusRes, now, loginExit) ==
    Let(isLogin(p, statusRes, now), LAMBDA il :
    Let(getProxyFlags(p), LAMBDA flags :
        LET args  == flags.args \o authFlags(p)
            first == <<isLoginCommand(p)>>
        IN  IF il.panicked THEN [panicked |-> TRUE, err |-> Nil, runs |-> first]
            ELSE IF il.value THEN [panicked |-> FALSE, err |-> Nil, runs |-> first]
            ELSE IF flags.err # Nil THEN [panicked |-> FALSE, err |-> flags.err, runs |-> first]
            ELSE [panicked |-> FALSE, err |-> loginExit,
                  runs |-> Append(first, Command(TSH_tshBinary(p), << <<"l","o","g","i","n">> >> \o args))]))

\* config.Item{}
EmptyItem == [Hostname |-> <<>>, Address |-> <<>>]

\* parseNodesFromString: the loop over the tokens of one line, from the
\* i-th token on; node: [Hostname, Address]
RECURSIVE nodeOfTokens(_, _, _, _)
nodeOfTokens(tokens, i, infoCount, node) ==
    IF i > Len(tokens) THEN node
    ELSE IF tokens[i] = <<>> THEN nodeOfTokens(tokens, i + 1, infoCount, node)
    ELSE IF infoCount = 2 THEN node
    ELSE IF infoCount = 0
         THEN nodeOfTokens(tokens, i + 1, infoCount + 1, [node EXCEPT !.Hostname = tokens[i]])
    ELSE nodeOfTokens(tokens, i + 1, infoCount + 1, [node EXCEPT !.Address = tokens[i]])

\* nodesOfLine that does not skip the lines that begin with a space
nodesOfLineKeepsIndented(line) ==
    IF HasPrefix(line, <<"N","o","d","e">>) \/ HasPrefix(line, <<"-","-","-">>)
    THEN <<>>
    ELSE Let(Split(line, <<" ">>), LAMBDA tokens :
         Let(nodeOfTokens(tokens, 1, 0, EmptyItem), LAMBDA node :
             IF node # EmptyItem THEN <<node>> ELSE <<>>))

\* parseNodesFromString: what one line adds to nodeList
nodesOfLine(line) ==
    IF HasPrefix(line, <<"N","o","d","e">>) \/ HasPrefix(line, <<"-","-","-">>) \/ HasPrefix(line, <<" ">>)
    THEN <<>>
    ELSE Let(Split(line, <<" ">>), LAMBDA tokens :
         Let(nodeOfTokens(tokens, 1, 0, EmptyItem), LAMBDA node :
             IF node # EmptyItem THEN <<node>> ELSE <<>>))

\* parseNodesFromString: the loop over the lines, from the i-th line on
RECURSIVE nodesOfLines(_, _)
nodesOfLines(lines, i) ==
    IF i > Len(lines) THEN <<>> ELSE nodesOfLine(lines[i]) \o nodesOfLines(lines, i + 1)

\* parseNodesFromString: config.Node{Items: nodeList}, as its Items
parseNodesFromString(nodeStr) ==
    Let(Split(nodeStr, <<"\n">>), LAMBDA lines : nodesOfLines(lines, 1))

\* ListNodes that does not read the error stream of `tsh ls` (lines 103-105)
ListNodesIgnoresStdErr(p, statusRes, now, loginExit, lsRes) ==
    Let(Login(p, statusRes, now, loginExit), LAMBDA lg :
    Let(getProxyFlags(p), LAMBDA flags :
        LET ran == Append(lg.runs, Command(TSH_tshBinary(p), << <<"l","s">> >> \o flags.args))
            out(nodes, err, rs) == [panicked |-> FALSE, nodes |-> nodes, err |-> err, runs |-> rs]
        IN  IF lg.panicked THEN [panicked |-> TRUE, nodes |-> <<>>, err |-> Nil, runs |-> lg.runs]
            ELSE IF lg.err # Nil THEN out(<<>>, lg.err, lg.runs)
            ELSE IF flags.err # Nil THEN out(<<>>, flags.err, lg.runs)
            ELSE IF lsRes.err # Nil THEN out(<<>>, lsRes.err, ran)
            ELSE out(parseNodesFromString(lsRes.stdOut), Nil, ran)))

\* TSH.ListNodes, given what Login saw and what `tsh ls` did:
\* [panicked, nodes, err, runs]
ListNodes(p, statusRes, now, loginExit, lsRes) ==
    Let(Login(p, statusRes, now, loginExit), LAMBDA lg :
    Let(getProxyFlags(p), LAMBDA flags :
        LET ran == Append(lg.runs, Command(TSH_tshBinary(p), << <<"l","s">> >> \o flags.args))
            out(nodes, err, rs) == [panicked |-> FALSE, nodes |-> nodes, err |-> err, runs |-> rs]
        IN  IF lg.panicked THEN [panicked |-> TRUE, nodes |-> <<>>, err |-> Nil, runs |-> lg.runs]
            ELSE IF lg.err # Nil THEN out(<<>>, lg.err, lg.runs)
            ELSE IF flags.err # Nil THEN out(<<>>, flags.err, lg.runs)
            ELSE IF lsRes.err # Nil THEN out(<<>>, lsRes.err, ran)
            ELSE IF lsRes.stdErr # <<>> THEN out(<<>>, ErrorsNew(lsRes.stdErr), ran)
            ELSE out(parseNodesFromString(lsRes.stdOut), Nil, ran)))

\* Version{}
NoVersion == [Major |-> 0, Minor |-> 0, Patch |-> 0]

\* NewVersion (version.go): the first token of the banner that is
\* v<major>.<minor>.<patch>, with anything after a further dot ignored
versionOfToken(token) ==
    Let(Split(SubSeq(token, 2, Len(token)), <<".">>), LAMBDA parts :
        LET num(i) == parts[i] # <<>> /\ AllDigits(parts[i])
        IN  IF HasPrefix(token, <<"v">>) /\ Len(parts) >= 3 /\ num(1) /\ num(2) /\ num(3)
            THEN [ok |-> TRUE,
                  v  |-> [Major |-> Atoi(parts[1]), Minor |-> Atoi(parts[2]),
                          Patch |-> Atoi(parts[3])]]
            ELSE [ok |-> FALSE, v |-> NoVersion])

ErrParseVersion == [kind |-> "ParseError", msg |-> <<>>]

NewVersion(banner) ==
    Let(Split(Replace(banner, <<"\n">>, <<" ">>), <<" ">>), LAMBDA tokens :
    Let({i \in 1..Len(tokens) : versionOfToken(tokens[i]).ok}, LAMBDA hits :
        IF hits = {} THEN [err |-> ErrParseVersion, v |-> NoVersion]
        ELSE [err |-> Nil, v |-> versionOfToken(tokens[Least(hits)]).v]))

\* Version.IsSupported (version.go): min.IsSupported(cv), cv at or above min
IsSupported(min, cv) ==
    \/ cv.Major > min.Major
    \/ cv.Major = min.Major /\ cv.Minor > min.Minor
    \/ cv.Major = min.Major /\ cv.Minor = min.Minor /\ cv.Patch >= min.Patch

\* TSH.Version, given what `tsh version` did: [err, v, runs]
Version(p, verRes) ==
    LET ran == <<Command(TSH_tshBinary(p), << <<"v","e","r","s","i","o","n">> >>)>>
    IN  IF verRes.err # Nil THEN [err |-> verRes.err, v |-> NoVersion, runs |-> ran]
        ELSE IF verRes.stdErr # <<>>
             THEN [err |-> ErrorsNew(verRes.stdErr), v |-> NoVersion, runs |-> ran]
        ELSE IF verRes.stdOut = <<>> THEN [err |-> ErrStdOutEmpty, v |-> NoVersion, runs |-> ran]
        ELSE Let(NewVersion(verRes.stdOut), LAMBDA nv : [err |-> nv.err, v |-> nv.v, runs |-> ran])

\* trimSliceString
RECURSIVE trimSliceStringFrom(_, _)
trimSliceStringFrom(list, i) ==
    IF i > Len(list) THEN <<>> ELSE <<TrimSpace(list[i])>> \o trimSliceStringFrom(list, i + 1)

trimSliceString(list) == Let(list, LAMBDA l : trimSliceStringFrom(l, 1))

\* config.ProxyStatus{}
EmptyStatus == [LoginAs |-> <<>>, Roles |-> <<>>, UserLogins |-> <<>>]

\* parseStringToStatus: one turn of the loop over the lines
statusOfLine(res, line) ==
    Let(Split(line, <<":">>), LAMBDA kv :
        IF Len(kv) <= 1 THEN res
        ELSE Let(TrimSpace(kv[1]), LAMBDA key :
             IF key = <<"L","o","g","g","e","d"," ","i","n"," ","a","s">> THEN [res EXCEPT !.LoginAs = TrimSpace(kv[2])]
             ELSE IF key = <<"R","o","l","e","s">>
                  THEN [res EXCEPT !.Roles = trimSliceString(Split(TrimSpace(kv[2]), <<",">>))]
             ELSE IF key = <<"L","o","g","i","n","s">>
                  THEN [res EXCEPT !.UserLogins = trimSliceString(Split(TrimSpace(kv[2]), <<",">>))]
             ELSE res))

\* parseStringToStatus: the loop over the lines, from the i-th line on
RECURSIVE statusOfLines(_, _, _)
statusOfLines(res, lines, i) ==
    IF i > Len(lines) THEN res
    ELSE Let(statusOfLine(res, lines[i]), LAMBDA next : statusOfLines(next, lines, i + 1))

\* TSH.parseStringToStatus
parseStringToStatus(str) ==
    Let(Split(Replace(str, <<">">>, <<>>), <<"\n">>), LAMBDA lines :
        statusOfLines(EmptyStatus, lines, 1))

\* Status without the comparison with the minimum version (lines 142-144)
StatusWithoutVersionGate(p, min, verRes, statusRes) ==
    Let(Version(p, verRes), LAMBDA cv :
    Let(getProxyFlags(p), LAMBDA flags :
        LET ran == Append(cv.runs, Command(TSH_tshBinary(p), << <<"s","t","a","t","u","s">> >> \o flags.args))
            out(st, err, rs) == [status |-> st, err |-> err, runs |-> rs]
        IN  IF cv.err # Nil THEN out(EmptyStatus, cv.err, cv.runs)
            ELSE IF flags.err # Nil THEN out(EmptyStatus, flags.err, cv.runs)
            ELSE IF statusRes.err # Nil THEN out(EmptyStatus, statusRes.err, ran)
            ELSE IF statusRes.stdErr # <<>> THEN out(EmptyStatus, ErrorsNew(statusRes.stdErr), ran)
            ELSE IF statusRes.stdOut = <<>> THEN out(EmptyStatus, ErrStdOutEmpty, ran)
            ELSE out(parseStringToStatus(statusRes.stdOut), Nil, ran)))

\* TSH.Status, given what `tsh version` and `tsh status` did:
\* [status, err, runs]
Status(p, min, verRes, statusRes) ==
    Let(Version(p, verRes), LAMBDA cv :
    Let(getProxyFlags(p), LAMBDA flags :
        LET ran == Append(cv.runs, Command(TSH_tshBinary(p), << <<"s","t","a","t","u","s">> >> \o flags.args))
            out(st, err, rs) == [status |-> st, err |-> err, runs |-> rs]
        IN  IF cv.err # Nil THEN out(EmptyStatus, cv.err, cv.runs)
            ELSE IF ~IsSupported(min, cv.v) THEN out(EmptyStatus, ErrUnsupportedVersion, cv.runs)
            ELSE IF flags.err # Nil THEN out(EmptyStatus, flags.err, cv.runs)
            ELSE IF statusRes.err # Nil THEN out(EmptyStatus, statusRes.err, ran)
            ELSE IF statusRes.stdErr # <<>> THEN out(EmptyStatus, ErrorsNew(statusRes.stdErr), ran)
            ELSE IF statusRes.stdOut = <<>> THEN out(EmptyStatus, ErrStdOutEmpty, ran)
            ELSE out(parseStringToStatus(statusRes.stdOut), Nil, ran)))

\* config.Node.LookUpIPAddress (package config): the address of the first
\* item of the directory with the hostname
LookUpIPAddress(node, host) ==
    Let({i \in 1..Len(node) : node[i].Hostname = host}, LAMBDA hits :
        IF hits = {} THEN [ok |-> FALSE, ipAddress |-> <<>>]
        ELSE [ok |-> TRUE, ipAddress |-> node[Least(hits)].Address])

\* SSH that gives `tsh ssh` the hostname it was asked for
SSHPassesHostname(p, username, host, sshExit) ==
    Let(getProxyFlags(p), LAMBDA flags :
    Let(LookUpIPAddress(p.Node, host), LAMBDA found :
        LET args == flags.args \o authFlags(p) \o << <<"-","l">>, username, host >>
        IN  IF flags.err # Nil THEN [err |-> flags.err, runs |-> <<>>]
            ELSE IF ~found.ok THEN [err |-> ErrNoIPAddress, runs |-> <<>>]
            ELSE [err |-> sshExit,
                  runs |-> <<Command(TSH_tshBinary(p), << <<"s","s","h">> >> \o args)>>]))

\* TSH.SSH, given how `tsh ssh` ended: [err, runs]
SSH(p, username, host, sshExit) ==
    Let(getProxyFlags(p), LAMBDA flags :
    Let(LookUpIPAddress(p.Node, host), LAMBDA found :
        LET args == flags.args \o authFlags(p) \o << <<"-","l">>, username, found.ipAddress >>
        IN  IF flags.err # Nil THEN [err |-> flags.err, runs |-> <<>>]
            ELSE IF ~found.ok THEN [err |-> ErrNoIPAddress, runs |-> <<>>]
            ELSE [err |-> sshExit,
                  runs |-> <<Command(TSH_tshBinary(p), << <<"s","s","h">> >> \o args)>>]))

---------------------------------------------------------------------------
(* The outside world: configurations, the clock and what the tool prints. *)

\* the proxy addresses a configuration may hold: the address the tool
\* prints for the profile, the same with a path, and one url.Parse rejects
AddrPlain == <<"h","t","t","p","s",":","/","/","p","r","o","x","y",".","e","x","a","m","p","l","e",".","c","o","m">>
AddrPath == <<"h","t","t","p","s",":","/","/","p","r","o","x","y",".","e","x","a","m","p","l","e",".","c","o","m","/","w","e","b","a","p","i">>
AddrBad == <<"1","0",".","0",".","0",".","1",":","3","0","8","0">>
Addresses == {AddrPlain, AddrPath, AddrBad}

\* the lines `tsh status` may print
LineProfileA == <<">"," ","P","r","o","f","i","l","e"," ","U","R","L",":"," ","h","t","t","p","s",":","/","/","p","r","o","x","y",".","e","x","a","m","p","l","e",".","c","o","m">>
LineProfileB == <<" "," ","P","r","o","f","i","l","e"," ","U","R","L",":"," ","h","t","t","p","s",":","/","/","b",".","i","o",":","3","0","8","0">>
LineValid2099 == <<" "," ","V","a","l","i","d"," ","u","n","t","i","l",":"," ","2","0","9","9","-","0","1","-","0","1"," ","0","0",":","0","0",":","0","0"," ","+","0","0","0","0"," ","W","I","B">>
LineValid2020 == <<" "," ","V","a","l","i","d"," ","u","n","t","i","l",":"," ","2","0","2","0","-","0","6","-","3","0"," ","2","3",":","5","9",":","5","9"," ","+","0","7","0","0"," ","W","I","B"," ","[","E","X","P","I","R","E","D","]">>
LineValidBad == <<" "," ","V","a","l","i","d"," ","u","n","t","i","l",":"," ","n","e","v","e","r">>
LineOther == <<" "," ","L","o","g","g","e","d"," ","i","n"," ","a","s",":"," ","b","o","b">>
StatusLines ==
    {LineProfileA, LineProfileB, LineValid2099, LineValid2020, LineValidBad, LineOther}

\* all sequences over S of length at most n
RECURSIVE SeqsUpTo(_, _)
SeqsUpTo(S, n) ==
    IF n = 0 THEN {<<>>}
    ELSE LET shorter == SeqsUpTo(S, n - 1)
         IN  shorter \cup {Append(q, x) : q \in {r \in shorter : Len(r) = n - 1}, x \in S}

StatusTexts == {JoinLines(q) : q \in SeqsUpTo(StatusLines, MaxStatusLines)}

\* what a captured run of the tool gives, (cmdResult, error): a run that
\* exits zero and writes nothing to its error stream, for each text
OkRuns(texts) == {[err |-> Nil, stdOut |-> t, stdErr |-> <<>>] : t \in texts}

\* the runs that fail: a non-zero exit, output on the error stream, or both
\* (the client reads nothing else of them)
FailedRuns ==
    {[err |-> ExitError, stdOut |-> <<>>, stdErr |-> <<>>],
     [err |-> Nil, stdOut |-> <<"p","a","r","t","i","a","l">>, stdErr |-> <<"E","R","R","O","R",":"," ","a","c","c","e","s","s"," ","d","e","n","i","e","d">>],
     [err |-> ExitError, stdOut |-> <<>>, stdErr |-> <<"E","R","R","O","R",":"," ","a","c","c","e","s","s"," ","d","e","n","i","e","d">>]}

StatusRuns == OkRuns(StatusTexts) \cup FailedRuns

\* the instants time.Now() may give
Nows ==
    {Date(2026, 11, 3, 12, 0, 0, 0), Date(2098, 12, 31, 23, 59, 59, 0),
     Date(2099, 1, 1, 0, 0, 0, 0), Date(2100, 1, 1, 0, 0, 0, 0)}

\* config.Proxy values
Proxies(addresses, connectors, paths, nodes) ==
    {[Address |-> a, AuthConnector |-> c, UserName |-> <<"b","o","b">>, TSHPath |-> t, Node |-> n] :
        a \in addresses, c \in connectors, t \in paths, n \in nodes}

TSHPaths == {<<>>, <<"/","o","p","t","/","t","s","h">>}

\* NewTSH
NewTSH(p) == [proxy |-> p, minVersion |-> [Major |-> 2, Minor |-> 6, Patch |-> 1]]

Idle ==
    /\ pc = "idle" /\ op = "none" /\ in = <<>> /\ runs = <<>> /\ ret = <<>>

InitWith(ps) ==
    /\ \E p \in ps : proxy = NewTSH(p).proxy /\ minVersion = NewTSH(p).minVersion
    /\ Idle

\* the caller is done with what a call returned
Return ==
    /\ pc = "done"
    /\ pc' = "idle" /\ op' = "none" /\ in' = <<>> /\ runs' = <<>> /\ ret' = <<>>
    /\ UNCHANGED <<proxy, minVersion>>

---------------------------------------------------------------------------
(* The session check on its own. *)

CallIsLogin ==
    /\ pc = "idle"
    /\ \E res \in StatusRuns, now \in Nows :
          /\ in' = [status |-> res, now |-> now]
          /\ runs' = <<isLoginCommand(proxy)>>
          /\ ret' = isLogin(proxy, res, now)
    /\ op' = "isLogin" /\ pc' = "done"
    /\ UNCHANGED <<proxy, minVersion>>

InitLogin == InitWith(Proxies(Addresses, {<<>>}, {<<>>}, {<<>>}))

NextLogin == CallIsLogin \/ Return

SpecLogin == InitLogin /\ [][NextLogin]_vars


---------------------------------------------------------------------------
(* The listing parser on its own. *)

\* the lines `tsh ls` may print
LineHeader == <<"N","o","d","e"," ","N","a","m","e"," ","A","d","d","r","e","s","s"," "," "," "," "," "," "," "," ","L","a","b","e","l","s">>
LineRule == <<"-","-","-","-","-","-","-","-","-"," ","-","-","-","-","-","-","-","-","-","-","-","-","-","-"," ","-","-","-","-","-","-">>
LineHost1 == <<"h","o","s","t","1"," "," "," ","1","0",".","0",".","0",".","1">>
LineHost2 == <<"h","o","s","t","2"," "," "," "," "," ","1","0",".","0",".","0",".","2",":","3","0","2","2"," "," ","e","n","v","=","p","r","o","d",",","r","o","l","e","=","d","b"," ","e","x","t","r","a">>
LineSolo == <<"s","o","l","o">>
LineIndented == <<" "," "," "," "," "," "," "," "," "," ","r","o","l","e","=","w","e","b">>
LineEmpty == <<>>
ListingLines ==
    {LineHeader, LineRule, LineHost1, LineHost2, LineSolo, LineIndented, LineEmpty}

CallParseNodes ==
    /\ pc = "idle"
    /\ \E lines \in SeqsUpTo(ListingLines, MaxListingLines) :
          /\ in' = [lines |-> lines, listing |-> JoinLines(lines)]
          /\ ret' = [nodes |-> parseNodesFromString(JoinLines(lines))]
    /\ runs' = <<>>
    /\ op' = "parseNodesFromString" /\ pc' = "done"
    /\ UNCHANGED <<proxy, minVersion>>

InitNodes == InitWith(Proxies({AddrPlain}, {<<>>}, {<<>>}, {<<>>}))

NextNodes == CallParseNodes \/ Return

SpecNodes == InitNodes /\ [][NextNodes]_vars

---------------------------------------------------------------------------
(* The client's operations. *)

\* what `tsh status` may give the session check of Login and ListNodes
LoginStatusRuns ==
    OkRuns({<<>>,
            JoinLines(<<LineProfileA, LineOther, LineValid2099>>),
            JoinLines(<<LineProfileA, LineValid2020>>),
            JoinLines(<<LineValid2099, LineProfileA>>)})
    \cup FailedRuns

\* how an attached process (login, ssh) may end
Exits == {Nil, ExitError}

\* what `tsh ls` may give ListNodes
ListingRuns ==
    OkRuns({<<>>,
            JoinLines(<<LineHeader, LineRule>>),
            JoinLines(<<LineHeader, LineRule, LineHost1, LineHost2, LineIndented>>)})
    \cup FailedRuns

\* what `tsh version` may give
VersionRuns ==
    OkRuns({<<>>,
            <<"T","e","l","e","p","o","r","t"," ","v","2",".","4",".","5",".","1"," ","g","i","t",":","v","2",".","4",".","5","-","1","9","-","g","4","9","0","1","c","4","8","-","d","i","r","t","y","\n">>,
            <<"T","e","l","e","p","o","r","t"," ","v","2",".","6",".","0"," ","g","i","t",":","v","2",".","6",".","0","\n">>,
            <<"T","e","l","e","p","o","r","t"," ","v","2",".","6",".","1"," ","g","i","t",":","v","2",".","6",".","1","\n">>,
            <<"T","e","l","e","p","o","r","t"," ","v","2",".","1","0",".","0"," ","g","i","t",":","v","2",".","1","0",".","0","\n">>,
            <<"T","e","l","e","p","o","r","t"," ","v","1",".","9",".","9","\n">>,
            <<"T","e","l","e","p","o","r","t"," ","v","3",".","0",".","0"," ","g","i","t",":","v","3",".","0",".","0","-","0","-","g","1"," ","g","o","1",".","1","2","\n">>,
            <<"T","e","l","e","p","o","r","t"," ","v","2",".","x","\n">>,
            <<"t","s","h",":"," ","c","o","m","m","a","n","d"," ","n","o","t"," ","f","o","u","n","d","\n">>})
    \cup FailedRuns

\* what `tsh status` may give Status
StatusOpRuns ==
    OkRuns({<<>>,
            JoinLines(<<LineProfileA, LineOther, <<" "," ","R","o","l","e","s",":"," ","a","d","m","i","n",","," ","d","e","v","*">>,
                        <<" "," ","L","o","g","i","n","s",":"," ","r","o","o","t",","," ","u","b","u","n","t","u">>, LineValid2099>>),
            JoinLines(<<<<"N","o","t"," ","l","o","g","g","e","d"," ","i","n",".">>>>)})
    \cup FailedRuns

\* the directories a configuration may hold, and the hosts and the user the
\* caller may ask for
Item(h, a) == [Hostname |-> h, Address |-> a]
Nodes ==
    {<<>>,
     <<Item(<<"h","o","s","t","1">>, <<"1","0",".","0",".","0",".","1">>), Item(<<"h","o","s","t","2">>, <<"1","0",".","0",".","0",".","2",":","3","0","2","2">>),
       Item(<<"h","o","s","t","1">>, <<"1","0",".","0",".","0",".","9">>)>>}
Hosts == {<<"h","o","s","t","1">>, <<"h","o","s","t","2">>, <<"h","o","s","t","9">>, <<"1","0",".","0",".","0",".","1">>}
Users == {<<"r","o","o","t">>}

CallLogin ==
    /\ pc = "idle"
    /\ \E statusRes \in LoginStatusRuns, now \in Nows, loginExit \in Exits :
          LET r == Login(proxy, statusRes, now, loginExit)
          IN  /\ in' = [status |-> statusRes, now |-> now, loginExit |-> loginExit]
              /\ runs' = r.runs
              /\ ret' = [panicked |-> r.panicked, err |-> r.err]
    /\ op' = "Login" /\ pc' = "done"
    /\ UNCHANGED <<proxy, minVersion>>

CallListNodes ==
    /\ pc = "idle"
    /\ \E statusRes \in LoginStatusRuns, now \in Nows, loginExit \in Exits, lsRes \in ListingRuns :
          LET r == ListNodes(proxy, statusRes, now, loginExit, lsRes)
          IN  /\ in' = [status |-> statusRes, now |-> now, loginExit |-> loginExit, ls |-> lsRes]
              /\ runs' = r.runs
              /\ ret' = [panicked |-> r.panicked, nodes |-> r.nodes, err |-> r.err]
    /\ op' = "ListNodes" /\ pc' = "done"
    /\ UNCHANGED <<proxy, minVersion>>

CallVersion ==
    /\ pc = "idle"
    /\ \E verRes \in VersionRuns :
          LET r == Version(proxy, verRes)
          IN  /\ in' = [version |-> verRes]
              /\ runs' = r.runs
              /\ ret' = [v |-> r.v, err |-> r.err]
    /\ op' = "Version" /\ pc' = "done"
    /\ UNCHANGED <<proxy, minVersion>>

CallStatus ==
    /\ pc = "idle"
    /\ \E verRes \in VersionRuns, statusRes \in StatusOpRuns :
          LET r == Status(proxy, minVersion, verRes, statusRes)
          IN  /\ in' = [version |-> verRes, status |-> statusRes]
              /\ runs' = r.runs
              /\ ret' = [status |-> r.status, err |-> r.err]
    /\ op' = "Status" /\ pc' = "done"
    /\ UNCHANGED <<proxy, minVersion>>

CallSSH ==
    /\ pc = "idle"
    /\ \E username \in Users, host \in Hosts, sshExit \in Exits :
          LET r == SSH(proxy, username, host, sshExit)
          IN  /\ in' = [username |-> username, host |-> host, sshExit |-> sshExit]
              /\ runs' = r.runs
              /\ ret' = [err |-> r.err]
    /\ op' = "SSH" /\ pc' = "done"
    /\ UNCHANGED <<proxy, minVersion>>

Init == InitWith(Proxies(Addresses, {<<>>, <<"g","s","u","i","t","e">>}, TSHPaths, Nodes))

Next == CallLogin \/ CallListNodes \/ CallVersion \/ CallStatus \/ CallSSH \/ Return

Spec == Init /\ [][Next]_vars


---------------------------------------------------------------------------
(* What the properties below read off a call, and what each line of the    *)
(* model's texts says (written down line by line, not parsed).             *)

Returned(o) == pc = "done" /\ op = o

\* the run of `tsh status` went through: exit zero, nothing on the error stream
StatusRunOk == in.status.err = Nil /\ in.status.stdErr = <<>>

\* the processes of the call whose first argument is the subcommand
Started(sub) == {i \in 1..Len(runs) : runs[i].args[1] = sub}

ProfileLines == {LineProfileA, LineProfileB}
ExpiryLines == {LineValid2099, LineValid2020}

UrlB == <<"h","t","t","p","s",":","/","/","b",".","i","o",":","3","0","8","0">>
UrlOfLine(line) == IF line = LineProfileA THEN AddrPlain ELSE UrlB

Expiry2099 == Date(2099, 1, 1, 0, 0, 0, 0)
Expiry2020 == Date(2020, 6, 30, 23, 59, 59, 7 * 3600)
ExpiryOfLine(line) == IF line = LineValid2099 THEN Expiry2099 ELSE Expiry2020

\* the text is N well-formed pairs: a Profile URL line, then its Valid until line
IsPairs(lines) ==
    /\ Len(lines) % 2 = 0
    /\ \A i \in 1..Len(lines) :
          IF i % 2 = 1 THEN lines[i] \in ProfileLines ELSE lines[i] \in ExpiryLines

\* the text is well-formed profiles: each a Profile URL line followed by one
\* or more well-formed Valid until lines
IsProfiles(lines) ==
    /\ \A i \in 1..Len(lines) : lines[i] \in ProfileLines \cup ExpiryLines
    /\ lines # <<>> => lines[1] \in ProfileLines
    /\ \A i \in 1..Len(lines) :
          lines[i] \in ProfileLines => (i < Len(lines) /\ lines[i + 1] \in ExpiryLines)

UrlsIn(lines) == {UrlOfLine(lines[i]) : i \in {j \in 1..Len(lines) : lines[j] \in ProfileLines}}

\* the last Valid until line of the last profile of the text with this URL
LastExpiryOf(lines, url) ==
    LET start == Greatest({i \in 1..Len(lines) :
                              lines[i] \in ProfileLines /\ UrlOfLine(lines[i]) = url})
        last  == Greatest({i \in (start + 1)..Len(lines) :
                              \A j \in (start + 1)..i : lines[j] \in ExpiryLines})
    IN  ExpiryOfLine(lines[last])

\* the host part of the addresses url.Parse accepts
ParsesAsURL(address) == address \in {AddrPlain, AddrPath}
ProxyFlagOf(address) == <<"-","-","p","r","o","x","y","=","p","r","o","x","y",".","e","x","a","m","p","l","e",".","c","o","m">>
AuthFlagOf(p) ==
    IF p.AuthConnector = <<>> THEN <<"-","-","u","s","e","r","=">> \o p.UserName ELSE <<"-","-","a","u","t","h","=">> \o p.AuthConnector

\* the entry of each line of a listing
EntryOfLine(line) ==
    IF line = LineHost1 THEN <<Item(<<"h","o","s","t","1">>, <<"1","0",".","0",".","0",".","1">>)>>
    ELSE IF line = LineHost2 THEN <<Item(<<"h","o","s","t","2">>, <<"1","0",".","0",".","0",".","2",":","3","0","2","2">>)>>
    ELSE IF line = LineSolo THEN <<Item(<<"s","o","l","o">>, <<>>)>>
    ELSE <<>>

RECURSIVE EntriesOf(_)
EntriesOf(lines) ==
    IF lines = <<>> THEN <<>> ELSE EntryOfLine(Head(lines)) \o EntriesOf(Tail(lines))

\* the version each banner of the model shows, <<>> when it shows none
VersionOfBanner(banner) ==
    IF banner = <<"T","e","l","e","p","o","r","t"," ","v","2",".","4",".","5",".","1"," ","g","i","t",":","v","2",".","4",".","5","-","1","9","-","g","4","9","0","1","c","4","8","-","d","i","r","t","y","\n">> THEN <<2, 4, 5>>
    ELSE IF banner = <<"T","e","l","e","p","o","r","t"," ","v","2",".","6",".","0"," ","g","i","t",":","v","2",".","6",".","0","\n">> THEN <<2, 6, 0>>
    ELSE IF banner = <<"T","e","l","e","p","o","r","t"," ","v","2",".","6",".","1"," ","g","i","t",":","v","2",".","6",".","1","\n">> THEN <<2, 6, 1>>
    ELSE IF banner = <<"T","e","l","e","p","o","r","t"," ","v","2",".","1","0",".","0"," ","g","i","t",":","v","2",".","1","0",".","0","\n">> THEN <<2, 10, 0>>
    ELSE IF banner = <<"T","e","l","e","p","o","r","t"," ","v","1",".","9",".","9","\n">> THEN <<1, 9, 9>>
    ELSE IF banner = <<"T","e","l","e","p","o","r","t"," ","v","3",".","0",".","0"," ","g","i","t",":","v","3",".","0",".","0","-","0","-","g","1"," ","g","o","1",".","1","2","\n">> THEN <<3, 0, 0>>
    ELSE <<>>

\* v is below 2.6.1
BelowMinimum(v) == v[1] * 10000 + v[2] * 100 + v[3] < 20601

---------------------------------------------------------------------------
(* isLogin (SpecLogin). *)

\* C1: isLogin returns true if and only if the status run gave no error, its
\* error stream is empty, the profile map has an entry whose key is exactly
\* the configured proxy address, and that entry's expiry is strictly after
\* now; in every other case it returns false.
C1_IsLoginTrueIffValidProfile ==
    Returned("isLogin") =>
        /\ ~ret.panicked
        /\ ret.value = (/\ StatusRunOk
                        /\ proxy.Address \in DOMAIN ret.profileMap
                        /\ Before(in.now, ret.profileMap[proxy.Address].ValidUntil))

\* The same of the calls whose scan runs to its end.
IsLoginTrueIffValidProfileWhenScanEnds ==
    (Returned("isLogin") /\ ~ret.panicked) =>
        ret.value = (/\ StatusRunOk
                     /\ proxy.Address \in DOMAIN ret.profileMap
                     /\ Before(in.now, ret.profileMap[proxy.Address].ValidUntil))

\* C2: with the status text of the profile https://proxy.example.com valid
\* until 2099-01-01 00:00:00 +0000 WIB and the configured address
\* https://proxy.example.com/webapi, isLogin returns true at any time before
\* the year 2099 and false at any time after it.
C2_EndToEndWebapiAddress ==
    (/\ Returned("isLogin")
     /\ proxy.Address = AddrPath
     /\ StatusRunOk
     /\ in.status.stdOut = JoinLines(<<LineProfileA, LineValid2099>>)) =>
        /\ ~ret.panicked
        /\ Before(in.now, Expiry2099) => ret.value
        /\ Before(Expiry2099, in.now) => ~ret.value

\* C3, as claimed: a status text of N well-formed pairs gives a profile map
\* of exactly N entries, each URL with the expiry of its own pair.
C3_ExactlyNEntries ==
    (Returned("isLogin") /\ StatusRunOk /\ IsPairs(ScanLines(in.status.stdOut))) =>
        LET lines == ScanLines(in.status.stdOut)
        IN  /\ ~ret.panicked
            /\ Cardinality(DOMAIN ret.profileMap) = Len(lines) \div 2
            /\ \A k \in 1..(Len(lines) \div 2) :
                  /\ UrlOfLine(lines[2 * k - 1]) \in DOMAIN ret.profileMap
                  /\ ret.profileMap[UrlOfLine(lines[2 * k - 1])].ValidUntil
                        = ExpiryOfLine(lines[2 * k])

\* C3, amended: a status text of well-formed profiles gives a profile map
\* with exactly one entry for each distinct URL (N entries for N pairs of
\* pairwise distinct URLs), keyed by the URL and carrying the expiry of the
\* last pair with that URL; of two Valid until lines of one profile the
\* later is kept.
C3_OneEntryPerDistinctURL ==
    (Returned("isLogin") /\ StatusRunOk /\ IsProfiles(ScanLines(in.status.stdOut))) =>
        LET lines == ScanLines(in.status.stdOut)
        IN  /\ ~ret.panicked
            /\ DOMAIN ret.profileMap = UrlsIn(lines)
            /\ \A url \in UrlsIn(lines) :
                  /\ ret.profileMap[url].URL = url
                  /\ ret.profileMap[url].ValidUntil = LastExpiryOf(lines, url)
            /\ (IsPairs(lines) /\ Cardinality(UrlsIn(lines)) = Len(lines) \div 2)
                  => Cardinality(DOMAIN ret.profileMap) = Len(lines) \div 2

\* two pairs of one URL: one entry, with the later expiry
C3_Witness ==
    /\ Returned("isLogin") /\ StatusRunOk
    /\ ScanLines(in.status.stdOut) = <<LineProfileA, LineValid2099, LineProfileA, LineValid2020>>
    /\ DOMAIN ret.profileMap = {AddrPlain}
    /\ ret.profileMap[AddrPlain].ValidUntil = Expiry2020

\* C9: for every status text the scan of isLogin runs to its end and isLogin
\* yields a boolean; a malformed or misplaced line (a timestamp that does not
\* parse, a Valid until line before any Profile URL line) never aborts it.
C9_ScanNeverAborts ==
    Returned("isLogin") => ~ret.panicked

\* a line with a prompt marker put before it
WithMarker(lines, i) == [lines EXCEPT ![i] = <<">">> \o @]

\* C10: a `>` put before a Profile URL line or a Valid until line of a
\* status text changes neither the profile URLs nor the expiries that are
\* parsed, hence not what isLogin returns.
C10_PromptMarkerChangesNothing ==
    (Returned("isLogin") /\ StatusRunOk /\ ~ret.panicked) =>
        LET lines == ScanLines(in.status.stdOut)
        IN  \A i \in 1..Len(lines) :
               (Contains(lines[i], <<"P","r","o","f","i","l","e"," ","U","R","L",":">>) \/ Contains(lines[i], <<"V","a","l","i","d"," ","u","n","t","i","l",":">>)) =>
                   isLogin(proxy, [in.status EXCEPT !.stdOut = JoinLines(WithMarker(lines, i))],
                           in.now) = ret

\* The same of the Profile URL lines alone.
PromptMarkerBeforeProfileURLChangesNothing ==
    (Returned("isLogin") /\ StatusRunOk /\ ~ret.panicked) =>
        LET lines == ScanLines(in.status.stdOut)
        IN  \A i \in 1..Len(lines) :
               Contains(lines[i], <<"P","r","o","f","i","l","e"," ","U","R","L",":">>) =>
                   isLogin(proxy, [in.status EXCEPT !.stdOut = JoinLines(WithMarker(lines, i))],
                           in.now) = ret

---------------------------------------------------------------------------
(* parseNodesFromString (SpecNodes). *)

\* C4: parseNodesFromString returns, in order of appearance and without
\* deduplication, one entry (first non-empty token, second non-empty token or
\* empty) for each host row; header, separator, indented and tokenless lines
\* give no entry, and no entry has both fields empty.
C4_OneEntryPerHostRow ==
    Returned("parseNodesFromString") =>
        /\ ret.nodes = EntriesOf(in.lines)
        /\ \A i \in 1..Len(ret.nodes) : ret.nodes[i] # EmptyItem

\* a header, then the same host row twice: two equal entries
C4_Witness ==
    /\ Returned("parseNodesFromString")
    /\ in.lines = <<LineHeader, LineHost1, LineHost1>>
    /\ ret.nodes = <<Item(<<"h","o","s","t","1">>, <<"1","0",".","0",".","0",".","1">>), Item(<<"h","o","s","t","1">>, <<"1","0",".","0",".","0",".","1">>)>>

---------------------------------------------------------------------------
(* Login, ListNodes, Status and SSH (Spec). *)

\* what isLogin reported to the call
Reported == isLogin(proxy, in.status, in.now)

\* the call started `tsh login` once, after the session check, with the
\* proxy flag and then the auth flag
LoginStartedOnce ==
    /\ Len(runs) = 2
    /\ runs[1] = Command(TSH_tshBinary(proxy), << <<"s","t","a","t","u","s">> >>)
    /\ runs[2] = Command(TSH_tshBinary(proxy),
                         << <<"l","o","g","i","n">>, ProxyFlagOf(proxy.Address), AuthFlagOf(proxy) >>)

\* C5, as claimed: Login starts no login process and returns success when
\* isLogin reports a valid session; when isLogin reports false it starts the
\* login once, with the proxy flag followed by the auth flag, and returns
\* what that process returned.
C5_LoginOnceUnlessLoggedIn ==
    (Returned("Login") /\ ~ret.panicked) =>
        /\ Reported.value => (Started(<<"l","o","g","i","n">>) = {} /\ ret.err = Nil)
        /\ ~Reported.value => (LoginStartedOnce /\ ret.err = in.loginExit)

\* C5, amended: the same when the configured proxy address parses as a URL;
\* when isLogin reports false and the address does not parse, Login returns
\* the parse error and starts no login process.
C5_LoginOnceWhenAddressParses ==
    (Returned("Login") /\ ~ret.panicked) =>
        /\ Reported.value => (Started(<<"l","o","g","i","n">>) = {} /\ ret.err = Nil)
        /\ (~Reported.value /\ ParsesAsURL(proxy.Address))
              => (LoginStartedOnce /\ ret.err = in.loginExit)
        /\ (~Reported.value /\ ~ParsesAsURL(proxy.Address))
              => (Started(<<"l","o","g","i","n">>) = {} /\ ret.err = UrlError)

\* not logged in, a connector configured: the login ran with --auth and failed
C5_Witness ==
    /\ Returned("Login") /\ ~ret.panicked /\ ~Reported.value
    /\ proxy.AuthConnector = <<"g","s","u","i","t","e">>
    /\ LoginStartedOnce
    /\ runs[2].args[3] = <<"-","-","a","u","t","h","=","g","s","u","i","t","e">>
    /\ ret.err = ExitError

\* what Login returned to ListNodes
LoginOfListNodes == Login(proxy, in.status, in.now, in.loginExit)

\* C6: ListNodes never starts the listing before Login has returned without
\* error; a failed Login is returned with an empty directory and no listing;
\* a listing that exits non-zero or writes to its error stream gives an error
\* and an empty directory; only a successful login and a clean listing give
\* the parsed directory, which may be empty.
C6_ListNodesAfterLogin ==
    Returned("ListNodes") =>
        LET lg == LoginOfListNodes
        IN  /\ Started(<<"l","s">>) # {} =>
                  /\ ~lg.panicked /\ lg.err = Nil
                  /\ Started(<<"l","s">>) = {Len(runs)}
                  /\ SubSeq(runs, 1, Len(runs) - 1) = lg.runs
            /\ (~lg.panicked /\ lg.err # Nil) =>
                  /\ ret.err = lg.err /\ ret.nodes = <<>> /\ Started(<<"l","s">>) = {}
            /\ (Started(<<"l","s">>) # {} /\ (in.ls.err # Nil \/ in.ls.stdErr # <<>>)) =>
                  /\ ret.err # Nil /\ ret.nodes = <<>>
            /\ (~ret.panicked /\ ret.err = Nil) =>
                  /\ lg.err = Nil /\ Started(<<"l","s">>) # {}
                  /\ in.ls.err = Nil /\ in.ls.stdErr = <<>>
                  /\ ret.nodes = EntriesOf(Split(in.ls.stdOut, <<"\n">>))

\* a clean listing of a header and a rule alone: an empty directory, no error
C6_Witness ==
    /\ Returned("ListNodes") /\ ~ret.panicked
    /\ Started(<<"l","s">>) # {}
    /\ in.ls.stdOut = JoinLines(<<LineHeader, LineRule>>)
    /\ ret.err = Nil /\ ret.nodes = <<>>

\* the run of `tsh version` gave a banner with a version
VersionFound ==
    /\ in.version.err = Nil /\ in.version.stdErr = <<>>
    /\ VersionOfBanner(in.version.stdOut) # <<>>

AddressesOf(host) == {proxy.Node[i].Address : i \in {j \in 1..Len(proxy.Node) : proxy.Node[j].Hostname = host}}

\* C8: SSH returns an error and starts no connect process when the hostname
\* is absent from the loaded directory; the connect process is started only
\* once the hostname is resolved, and is given the address (not the
\* hostname) after the proxy and auth flags.
C8_SSHOnlyToResolvedAddress ==
    Returned("SSH") =>
        /\ AddressesOf(in.host) = {} => (ret.err # Nil /\ runs = <<>>)
        /\ runs # <<>> =>
              /\ Len(runs) = 1
              /\ AddressesOf(in.host) # {}
              /\ \E a \in AddressesOf(in.host) :
                    runs[1] = Command(TSH_tshBinary(proxy),
                                      << <<"s","s","h">>, ProxyFlagOf(proxy.Address), AuthFlagOf(proxy),
                                         <<"-","l">>, in.username, a >>)

\* host1 is in the directory: `tsh ssh` ran to its address
C8_Witness ==
    /\ Returned("SSH")
    /\ in.host = <<"h","o","s","t","1">>
    /\ Len(runs) = 1
    /\ runs[1].args[6] = <<"1","0",".","0",".","0",".","1">>
    /\ ret.err = Nil

=============================================================================
